---------------------------- MODULE Spec2Model ----------------------------
(***************************************************************************)
(* Location-resolution workflow of the Community Waste Reporting app:      *)
(* src/utils/location.ts (coordinate acquisition, reverse geocoding,       *)
(* normalization, manual validation) and the state that                    *)
(* components/CitizenDashboard.tsx keeps around it.                        *)
(*                                                                         *)
(* Strings that the code inspects character by character (street and city  *)
(* names) are sequences of one-character strings; messages that are only   *)
(* compared as a whole are TLA+ strings.  Latitudes and longitudes are     *)
(* integers scaled by 10^4 (37.7749 is 377749).                            *)
(***************************************************************************)
EXTENDS Integers, Sequences, FiniteSets, TLC

(***************************************************************************)
(* Characters                                                              *)
(***************************************************************************)
LowerLetters == <<"a","b","c","d","e","f","g","h","i","j","k","l","m",
                  "n","o","p","q","r","s","t","u","v","w","x","y","z">>

UpperLetters == <<"A","B","C","D","E","F","G","H","I","J","K","L","M",
                  "N","O","P","Q","R","S","T","U","V","W","X","Y","Z">>

Digits == {"0","1","2","3","4","5","6","7","8","9"}

IsLower(c) == \E i \in 1..26 : LowerLetters[i] = c

IsUpper(c) == \E i \in 1..26 : UpperLetters[i] = c

\* \w of a JavaScript regular expression
IsWordChar(c) == IsLower(c) \/ IsUpper(c) \/ c \in Digits \/ c = "_"

\* \s of a JavaScript regular expression, over the characters used here
IsSpace(c) == c = " "

UpperChar(c) ==
  IF IsLower(c) THEN UpperLetters[CHOOSE i \in 1..26 : LowerLetters[i] = c] ELSE c

LowerChar(c) ==
  IF IsUpper(c) THEN LowerLetters[CHOOSE i \in 1..26 : UpperLetters[i] = c] ELSE c

toUpperCase(s) == [i \in 1..Len(s) |-> UpperChar(s[i])]

toLowerCase(s) == [i \in 1..Len(s) |-> LowerChar(s[i])]

\* s.slice(from - 1): the suffix of s that starts at the 1-based index from
Slice(s, from) == IF from > Len(s) THEN <<>> ELSE SubSeq(s, from, Len(s))

(***************************************************************************)
(* String.prototype.trim                                                   *)
(***************************************************************************)
RECURSIVE TrimLeft(_)
TrimLeft(s) ==
  IF s # <<>> /\ IsSpace(s[1]) THEN TrimLeft(Tail(s)) ELSE s

RECURSIVE TrimRight(_)
TrimRight(s) ==
  IF s # <<>> /\ IsSpace(s[Len(s)]) THEN TrimRight(SubSeq(s, 1, Len(s) - 1)) ELSE s

Trim(s) == TrimRight(TrimLeft(s))

(***************************************************************************)
(* The steps of normalizeStreetName                                        *)
(***************************************************************************)
\* .replace(/,+/g, ',')
RECURSIVE CollapseCommas(_)
CollapseCommas(s) ==
  IF Len(s) < 2 THEN s
  ELSE IF s[1] = "," /\ s[2] = "," THEN CollapseCommas(Tail(s))
  ELSE <<s[1]>> \o CollapseCommas(Tail(s))

\* .replace(/\s+/g, ' ')
RECURSIVE CollapseSpaces(_)
CollapseSpaces(s) ==
  IF s = <<>> THEN s
  ELSE IF IsSpace(s[1])
    THEN IF Len(s) >= 2 /\ IsSpace(s[2])
           THEN CollapseSpaces(Tail(s))
           ELSE <<" ">> \o CollapseSpaces(Tail(s))
    ELSE <<s[1]>> \o CollapseSpaces(Tail(s))

\* .split(' '): the pieces between the single spaces, empty pieces included
RECURSIVE SplitOnSpace(_)
SplitOnSpace(s) ==
  IF \A i \in 1..Len(s) : s[i] # " " THEN <<s>>
  ELSE LET k == CHOOSE i \in 1..Len(s) :
                  s[i] = " " /\ \A j \in 1..(i - 1) : s[j] # " "
       IN <<SubSeq(s, 1, k - 1)>> \o SplitOnSpace(Slice(s, k + 1))

\* the callback of .map(word => ...)
TitleCaseWord(word) ==
  IF Len(word) <= 3 /\ word = toUpperCase(word) THEN word
  ELSE IF word = <<>> THEN <<>>
  ELSE <<UpperChar(word[1])>> \o toLowerCase(Tail(word))

\* .join(' ')
RECURSIVE JoinWithSpace(_)
JoinWithSpace(words) ==
  IF words = <<>> THEN <<>>
  ELSE IF Len(words) = 1 THEN words[1]
  ELSE words[1] \o <<" ">> \o JoinWithSpace(Tail(words))

\* .replace(/,\s*$/, '')
StripTrailingComma(s) ==
  IF \E i \in 1..Len(s) :
       s[i] = "," /\ \A j \in (i + 1)..Len(s) : IsSpace(s[j])
  THEN LET k == CHOOSE i \in 1..Len(s) :
                  s[i] = "," /\ \A j \in (i + 1)..Len(s) : IsSpace(s[j])
       IN SubSeq(s, 1, k - 1)
  ELSE s

\* does /\bABBR\b/i match s at index i (abbr is given in lower case)
AbbrMatchesAt(s, i, abbr) ==
  /\ i + Len(abbr) - 1 <= Len(s)
  /\ toLowerCase(SubSeq(s, i, i + Len(abbr) - 1)) = abbr
  /\ (i = 1 \/ ~IsWordChar(s[i - 1]))
  /\ (i + Len(abbr) > Len(s) \/ ~IsWordChar(s[i + Len(abbr)]))

\* .replace(/\bABBR\b\.?/gi, full), scanning from index i
RECURSIVE ExpandFrom(_, _, _, _)
ExpandFrom(s, i, abbr, full) ==
  IF i > Len(s) THEN <<>>
  ELSE IF AbbrMatchesAt(s, i, abbr)
    THEN LET end == i + Len(abbr)
             next == IF end <= Len(s) /\ s[end] = "." THEN end + 1 ELSE end
         IN full \o ExpandFrom(s, next, abbr, full)
    ELSE <<s[i]>> \o ExpandFrom(s, i + 1, abbr, full)

ExpandAbbreviation(s, abbr, full) == ExpandFrom(s, 1, abbr, full)

\* the length of the match of /\bM\.?G\.?\b/i at index i, 0 when there is none
MGMatchLength(s, i) ==
  LET ch(k) == IF k <= Len(s) THEN LowerChar(s[k]) ELSE ""
      word(k) == k <= Len(s) /\ IsWordChar(s[k])
      g == IF ch(i + 1) = "." /\ ch(i + 2) = "g" THEN i + 2
           ELSE IF ch(i + 1) = "g" THEN i + 1
           ELSE 0
  IN IF ~(i <= Len(s) /\ ch(i) = "m" /\ (i = 1 \/ ~IsWordChar(s[i - 1]))) THEN 0
     ELSE IF g = 0 THEN 0
     ELSE IF ch(g + 1) = "." /\ word(g + 2) THEN g + 2 - i
     ELSE IF ~word(g + 1) THEN g + 1 - i
     ELSE 0

\* .replace(/\bM\.?G\.?\b/gi, 'MG'), scanning from index i
RECURSIVE ReplaceMGFrom(_, _)
ReplaceMGFrom(s, i) ==
  IF i > Len(s) THEN <<>>
  ELSE IF MGMatchLength(s, i) > 0
    THEN <<"M", "G">> \o ReplaceMGFrom(s, i + MGMatchLength(s, i))
    ELSE <<s[i]>> \o ReplaceMGFrom(s, i + 1)

Abbreviations ==
  << <<<<"r","d">>,         <<"R","o","a","d">>>>,
     <<<<"s","t">>,         <<"S","t","r","e","e","t">>>>,
     <<<<"a","v","e">>,     <<"A","v","e","n","u","e">>>>,
     <<<<"b","l","v","d">>, <<"B","o","u","l","e","v","a","r","d">>>>,
     <<<<"d","r">>,         <<"D","r","i","v","e">>>>,
     <<<<"l","n">>,         <<"L","a","n","e">>>>,
     <<<<"c","t">>,         <<"C","o","u","r","t">>>>,
     <<<<"p","l">>,         <<"P","l","a","c","e">>>> >>

RECURSIVE ExpandAll(_, _)
ExpandAll(s, k) ==
  IF k > Len(Abbreviations) THEN s
  ELSE ExpandAll(ExpandAbbreviation(s, Abbreviations[k][1], Abbreviations[k][2]), k + 1)

TitleCaseWords(words) == [i \in 1..Len(words) |-> TitleCaseWord(words[i])]

normalizeStreetName(street) ==
  IF street = <<>> THEN <<>>
  ELSE ReplaceMGFrom(
         ExpandAll(
           StripTrailingComma(
             JoinWithSpace(
               TitleCaseWords(
                 SplitOnSpace(CollapseSpaces(CollapseCommas(Trim(street))))))),
           1),
         1)

(***************************************************************************)
(* Values                                                                  *)
(***************************************************************************)
\* JavaScript null, for the values that are objects
Null == [null |-> TRUE]

\* JavaScript null, for the values that are messages
NoMessage == "null"

\* a || b for messages
OrElse(a, b) == IF a = NoMessage \/ a = "" THEN b ELSE a

LocationStates ==
  {"idle", "requesting-permission", "detecting", "geocoding", "success",
   "permission-denied", "timeout", "unsupported", "geocoding-failed", "error"}

FailureStates ==
  {"permission-denied", "timeout", "unsupported", "geocoding-failed", "error"}

\* GeolocationPositionError codes
PERMISSION_DENIED == 1

POSITION_UNAVAILABLE == 2

TIMEOUT == 3

\* the three named codes and one that is none of them
PositionErrorCodes == {PERMISSION_DENIED, POSITION_UNAVAILABLE, TIMEOUT, 0}

\* the fixes the platform can report (latitude, longitude scaled by 10^4)
Positions ==
  { [latitude |-> 129716, longitude |-> 775946, accuracy |-> 10],
    [latitude |-> 185204, longitude |-> 738567, accuracy |-> 25] }

\* what navigator.geolocation.getCurrentPosition calls back with
PlatformOutcomes ==
  { [kind |-> "position", coords |-> p, code |-> -1] : p \in Positions } \cup
  { [kind |-> "error", coords |-> Null, code |-> c] : c \in PositionErrorCodes }

(***************************************************************************)
(* Address objects of the geocoder.  A field that is absent is the empty   *)
(* string: the code only tests the fields for truthiness.                  *)
(***************************************************************************)
StreetFields == <<"road", "street", "pedestrian", "footway", "path", "highway">>

AreaFields == <<"neighbourhood", "suburb", "district">>

CityFields == <<"city", "town", "village", "municipality", "county">>

AddressFields ==
  {"road", "street", "pedestrian", "footway", "path", "highway",
   "neighbourhood", "suburb", "district", "building",
   "city", "town", "village", "municipality", "county"}

EmptyAddress == [f \in AddressFields |-> <<>>]

UnknownCity == <<"U","n","k","n","o","w","n"," ","C","i","t","y">>

\* road "mg rd", city "Pune"
AddressWithRoad ==
  [EmptyAddress EXCEPT !["road"] = <<"m","g"," ","r","d">>,
                       !["city"] = <<"P","u","n","e">>]

\* no street field, suburb "east", town "goa"
AddressWithSuburb ==
  [EmptyAddress EXCEPT !["suburb"] = <<"e","a","s","t">>,
                       !["town"] = <<"g","o","a">>]

\* only a county
AddressWithoutStreet ==
  [EmptyAddress EXCEPT !["county"] = <<"K","e","n","t">>]

Addresses == {AddressWithRoad, AddressWithSuburb, AddressWithoutStreet}

\* how the request to the geocoding service can end
FetchOutcomes ==
  { [kind |-> "rejected", message |-> "Failed to fetch", address |-> EmptyAddress],
    [kind |-> "not-ok", message |-> NoMessage, address |-> EmptyAddress],
    [kind |-> "malformed", message |-> "Unexpected token < in JSON", address |-> EmptyAddress],
    [kind |-> "no-address", message |-> NoMessage, address |-> EmptyAddress] } \cup
  { [kind |-> "address", message |-> NoMessage, address |-> a] : a \in Addresses }

(***************************************************************************)
(* utils/location.ts                                                       *)
(***************************************************************************)
\* errorStateOfCode with the cases of PERMISSION_DENIED and TIMEOUT exchanged
errorStateOfCode_CasesSwapped(code) ==
  IF code = PERMISSION_DENIED THEN "timeout"
  ELSE IF code = TIMEOUT THEN "permission-denied"
  ELSE IF code = POSITION_UNAVAILABLE THEN "error"
  ELSE "error"

\* errorStateOfCode whose switch falls through to 'timeout'
errorStateOfCode_DefaultTimeout(code) ==
  IF code = PERMISSION_DENIED THEN "permission-denied"
  ELSE IF code = TIMEOUT THEN "timeout"
  ELSE IF code = POSITION_UNAVAILABLE THEN "error"
  ELSE "timeout"

\* the error callback of getCurrentPosition: the switch on error.code
errorStateOfCode(code) ==
  IF code = PERMISSION_DENIED THEN "permission-denied"
  ELSE IF code = TIMEOUT THEN "timeout"
  ELSE IF code = POSITION_UNAVAILABLE THEN "error"
  ELSE "error"

\* what getCurrentLocation resolves with when the platform calls back
getCurrentLocation(outcome) ==
  IF outcome.kind = "position"
  THEN [data |-> outcome.coords, error |-> NoMessage]
  ELSE [data |-> Null, error |-> errorStateOfCode(outcome.code)]

\* getCurrentLocationUnsupported that reports the generic error
getCurrentLocationUnsupported_GenericError == [data |-> Null, error |-> "error"]

\* what getCurrentLocation resolves with when there is no navigator.geolocation
getCurrentLocationUnsupported == [data |-> Null, error |-> "unsupported"]

\* the first truthy field of fields, normalized; <<>> when none is
RECURSIVE firstStreetField(_, _, _)
firstStreetField(address, fields, k) ==
  IF k > Len(fields) THEN <<>>
  ELSE IF address[fields[k]] # <<>> THEN address[fields[k]]
  ELSE firstStreetField(address, fields, k + 1)

\* [..].filter(Boolean): the non-empty fields, in order
RECURSIVE filterBoolean(_)
filterBoolean(values) ==
  IF values = <<>> THEN <<>>
  ELSE IF values[1] # <<>> THEN <<values[1]>> \o filterBoolean(Tail(values))
  ELSE filterBoolean(Tail(values))

extractStreetName(address) ==
  LET field == firstStreetField(address, StreetFields, 1)
      fallback == JoinWithSpace(filterBoolean(
                    [i \in 1..Len(AreaFields) |-> address[AreaFields[i]]]))
  IN IF field # <<>> THEN normalizeStreetName(field)
     ELSE IF fallback # <<>> THEN normalizeStreetName(fallback)
     ELSE <<>>

\* address.city || address.town || ... || 'Unknown City'
extractCity(address) ==
  LET field == firstStreetField(address, CityFields, 1)
  IN IF field # <<>> THEN field ELSE UnknownCity

\* streetNameWithFallback that takes the city when nothing else names a street
streetNameWithFallback_FallsBackToCity(address) ==
  LET street_name == extractStreetName(address)
      fallbackComponents ==
        filterBoolean(<<address["building"],
                        IF address["suburb"] # <<>> THEN address["suburb"]
                        ELSE address["neighbourhood"],
                        address["city"]>>)
  IN IF street_name = <<>> /\ Len(fallbackComponents) > 0
     THEN normalizeStreetName(JoinWithSpace(fallbackComponents))
     ELSE street_name

\* the street name of reverseGeocode before the final check
streetNameWithFallback(address) ==
  LET street_name == extractStreetName(address)
      fallbackComponents ==
        filterBoolean(<<address["building"],
                        IF address["suburb"] # <<>> THEN address["suburb"]
                        ELSE address["neighbourhood"]>>)
  IN IF street_name = <<>> /\ Len(fallbackComponents) > 0
     THEN normalizeStreetName(JoinWithSpace(fallbackComponents))
     ELSE street_name

GeocodingUnavailable == "Geocoding service unavailable"

NoAddressFound == "No address found for this location"

UnableToIdentifyStreet ==
  "Unable to identify street name from location. Please enter manually."

\* the try block of reverseGeocode for an outcome of its fetch: what it
\* returns, or the message of the Error it throws
reverseGeocodeTry(outcome) ==
  IF outcome.kind \in {"rejected", "malformed"}
    THEN [thrown |-> TRUE, message |-> outcome.message,
          data |-> Null, error |-> NoMessage]
  ELSE IF outcome.kind = "not-ok"
    THEN [thrown |-> TRUE, message |-> GeocodingUnavailable,
          data |-> Null, error |-> NoMessage]
  ELSE IF outcome.kind = "no-address"
    THEN [thrown |-> TRUE, message |-> NoAddressFound,
          data |-> Null, error |-> NoMessage]
  ELSE LET street_name == streetNameWithFallback(outcome.address)
           city == extractCity(outcome.address)
       IN IF street_name = <<>>
          THEN [thrown |-> FALSE, message |-> NoMessage,
                data |-> Null, error |-> UnableToIdentifyStreet]
          ELSE [thrown |-> FALSE, message |-> NoMessage,
                data |-> [street_name |-> normalizeStreetName(street_name),
                          city |-> normalizeStreetName(city)],
                error |-> NoMessage]

\* reverseGeocode without its catch block
reverseGeocode_NoCatch(outcome) ==
  LET try == reverseGeocodeTry(outcome)
  IN [data |-> try.data, error |-> try.error, thrown |-> try.thrown]

\* what reverseGeocode resolves with for an outcome of its fetch; thrown
\* tells whether the promise is rejected instead
reverseGeocode(outcome) ==
  LET try == reverseGeocodeTry(outcome)
  IN IF try.thrown
     THEN \* catch (error): error instanceof Error ? error.message : ...
          [data |-> Null, error |-> try.message, thrown |-> FALSE]
     ELSE [data |-> try.data, error |-> try.error, thrown |-> FALSE]

getErrorMessage(state) ==
  CASE state = "permission-denied" ->
         "Location permission denied. Please enable location access in your browser settings or enter the location manually."
    [] state = "timeout" ->
         "Location detection timed out. Please try again or enter the location manually."
    [] state = "unsupported" ->
         "Your browser does not support location detection. Please enter the location manually."
    [] state = "geocoding-failed" ->
         "Unable to identify street name from your location. Please enter it manually."
    [] OTHER ->
         "Unable to detect location. Please enter the location manually."

\* detectLocation, step 1: the result when getCurrentLocation gave no coordinates
detectLocationNoCoordinates(coordResult) ==
  [data |-> Null,
   error |-> getErrorMessage(OrElse(coordResult.error, "error")),
   state |-> OrElse(coordResult.error, "error"),
   thrown |-> FALSE]

\* detectLocation, step 1: does it return before geocoding
detectLocationStopsEarly(coordResult) ==
  coordResult.error # NoMessage \/ coordResult.data = Null

\* detectLocationGeocoded that keeps the coordinates when geocoding failed
detectLocationGeocoded_KeepsCoordinates(coordinates, geoResult) ==
  IF geoResult.thrown
  THEN [data |-> Null, error |-> NoMessage, state |-> "none", thrown |-> TRUE]
  ELSE IF geoResult.error # NoMessage \/ geoResult.data = Null
  THEN [data |-> [coordinates |-> coordinates, address |-> Null,
                  source |-> "auto"],
        error |-> OrElse(geoResult.error, "Failed to determine address"),
        state |-> "geocoding-failed",
        thrown |-> FALSE]
  ELSE [data |-> [coordinates |-> coordinates, address |-> geoResult.data,
                  source |-> "auto"],
        error |-> NoMessage,
        state |-> "success",
        thrown |-> FALSE]

\* detectLocation, step 2: the result once reverseGeocode has settled; a
\* rejection of the awaited promise rejects detectLocation (thrown)
detectLocationGeocoded(coordinates, geoResult) ==
  IF geoResult.thrown
  THEN [data |-> Null, error |-> NoMessage, state |-> "none", thrown |-> TRUE]
  ELSE IF geoResult.error # NoMessage \/ geoResult.data = Null
  THEN [data |-> Null,
        error |-> OrElse(geoResult.error, "Failed to determine address"),
        state |-> "geocoding-failed",
        thrown |-> FALSE]
  ELSE [data |-> [coordinates |-> coordinates, address |-> geoResult.data,
                  source |-> "auto"],
        error |-> NoMessage,
        state |-> "success",
        thrown |-> FALSE]

StreetTooShort == "Please enter a valid street name (minimum 3 characters)"

CityInvalid == "Please enter a valid city name"

\* validateManualLocation that checks the city before the street
validateManualLocation_ChecksCityFirst(streetName, city) ==
  LET trimmedStreet == Trim(streetName)
      trimmedCity == Trim(city)
  IN IF trimmedCity = <<>> \/ Len(trimmedCity) < 2
       THEN [valid |-> FALSE, error |-> CityInvalid]
     ELSE IF trimmedStreet = <<>> \/ Len(trimmedStreet) < 3
       THEN [valid |-> FALSE, error |-> StreetTooShort]
     ELSE [valid |-> TRUE, error |-> NoMessage]

validateManualLocation(streetName, city) ==
  LET trimmedStreet == Trim(streetName)
      trimmedCity == Trim(city)
  IN IF trimmedStreet = <<>> \/ Len(trimmedStreet) < 3
       THEN [valid |-> FALSE, error |-> StreetTooShort]
     ELSE IF trimmedCity = <<>> \/ Len(trimmedCity) < 2
       THEN [valid |-> FALSE, error |-> CityInvalid]
     ELSE [valid |-> TRUE, error |-> NoMessage]

(***************************************************************************)
(* components/CitizenDashboard.tsx                                         *)
(***************************************************************************)
\* the most FileReader reads, and calls of requestLocation, pending at once
MaxReaders == 1

MaxInFlight == 2

\* what the user types into the street and the city input
TypedStreets == { <<"a","b">>, <<"m","a","i","n"," ","s","t">> }

TypedCities == { <<>>, <<"S","F">> }

\* the coordinates handleManualLocationSubmit stores when there are none
ManualPlaceholder == [latitude |-> 0, longitude |-> 0, accuracy |-> 1000]

\* the coordinates handleSubmit stores in their place: 37.7749, -122.4194
DefaultFallback == [latitude |-> 377749, longitude |-> -1224194, accuracy |-> 5000]

\* typed and undetected are history: were the street and city of the call
\* typed by the user, and was the location confirmed manually with no
\* coordinates detected
NoSubmission ==
  [phase |-> "none", coordinates |-> Null, street_name |-> <<>>, city |-> <<>>,
   typed |-> FALSE, undetected |-> FALSE, uploadedFile |-> FALSE,
   locationState |-> "idle", imageUrl |-> FALSE]

NoAttempt ==
  [state |-> "none", error |-> NoMessage, visited |-> <<>>, acquired |-> Null,
   queries |-> 0, requests |-> 0, discarded |-> FALSE, code |-> -1,
   fetch |-> "none", rejected |-> FALSE]

\* no function of utils/location.ts is called on its own
NoCall == [function |-> "none"]

NotReturned == [done |-> FALSE]

(***************************************************************************)
(* db/admin.ts and the tables of supabase/schema.sql it writes             *)
(***************************************************************************)
\* the most calls an admin makes
MaxCalls == 2

ReportIds == {"r1", "r2"}

Admins == {"a1", "a2"}

\* CREATE TYPE report_status AS ENUM (...)
ReportStatuses == {"open", "in_progress", "resolved", "false_report"}

\* the statuses the admins write
NewStatuses == {"in_progress", "resolved"}

\* the status of an id that has no row in reports
NoRow == "no row"

\* previousStatus is the local of the call; before and removed are history:
\* the status the row had when the call updated it, and whether the call
\* deleted the row
NoAdminCall ==
  [op |-> "none", phase |-> "idle", reportId |-> "none", newStatus |-> "none",
   previousStatus |-> "none", success |-> FALSE, made |-> 0,
   before |-> "none", removed |-> FALSE]

VARIABLES
  locationState,       \* useState<LocationState>('idle')
  uploadedImage,       \* is uploadedImage non-null
  uploadedFile,        \* is uploadedFile non-null
  detectedStreet,
  detectedCity,
  locationError,
  coordinates,
  submitting,
  submitError,
  manualLocationMode,
  locationSource,
  supported,           \* 'geolocation' in navigator
  mounted,             \* has the useEffect of the component run
  attempts,            \* the calls of requestLocation that have not returned
  readers,             \* FileReader reads that have not ended
  submission,          \* the handleSubmit call that has not returned
  ended,               \* history: the detectLocation call resolved by the last step
  origin,              \* history: where coordinates and street/city come from
  call,                \* a call of a function of utils/location.ts on its own
  returned,            \* what that call returned
  reports,             \* the rows of the table reports: the status by id
  admin_actions,       \* the rows of the table admin_actions, oldest first
  adminCalls           \* the call of db/admin.ts each admin has made last

vars ==
  <<locationState, uploadedImage, uploadedFile, detectedStreet, detectedCity,
    locationError, coordinates, submitting, submitError,
    manualLocationMode, locationSource, supported, mounted,
    attempts, readers, submission, ended, origin, call, returned,
    reports, admin_actions, adminCalls>>

admin == <<reports, admin_actions, adminCalls>>

\* the attempts whose detectLocation call is pending
Detecting(a) == a.phase \in {"acquiring", "geocoding"}

DetectInFlight == \E i \in 1..Len(attempts) : Detecting(attempts[i])

RemoveAt(seq, i) == SubSeq(seq, 1, i - 1) \o SubSeq(seq, i + 1, Len(seq))

\* history: every pending detectLocation call sees the LocationState change
Observe(atts, state) ==
  [i \in 1..Len(atts) |->
     IF Detecting(atts[i]) /\ atts[i].visited[Len(atts[i].visited)] # state
     THEN [atts[i] EXCEPT !.visited = Append(@, state)]
     ELSE atts[i]]

\* history: the caller resets the location while detectLocation calls are pending
Discard(atts) ==
  [i \in 1..Len(atts) |->
     IF Detecting(atts[i]) THEN [atts[i] EXCEPT !.discarded = TRUE] ELSE atts[i]]

\* history: a new call of requestLocation makes what is stored data of an earlier one
Age(o) ==
  [coordinates |-> IF o.coordinates = "attempt" THEN "earlier" ELSE o.coordinates,
   address |-> IF o.address = "attempt" THEN "earlier" ELSE o.address]

dashboard ==
  <<locationState, uploadedImage, uploadedFile, detectedStreet, detectedCity,
    locationError, coordinates, submitting, submitError,
    manualLocationMode, locationSource, supported, mounted,
    attempts, readers, submission, ended, origin>>

\* the dashboard after its first render
InitDashboard ==
  /\ locationState = "idle"
  /\ uploadedImage = FALSE
  /\ uploadedFile = FALSE
  /\ detectedStreet = <<>>
  /\ detectedCity = <<>>
  /\ locationError = NoMessage
  /\ coordinates = Null
  /\ submitting = FALSE
  /\ submitError = NoMessage
  /\ manualLocationMode = FALSE
  /\ locationSource = "auto"
  /\ supported \in BOOLEAN
  /\ mounted = FALSE
  /\ attempts = <<>>
  /\ readers = 0
  /\ submission = NoSubmission
  /\ ended = NoAttempt
  /\ origin = [coordinates |-> "none", address |-> "none"]

\* the tables before any admin acts: every report is 'open' (the default of
\* the column status) and nothing is logged
InitAdmin ==
  /\ reports = [r \in ReportIds |-> "open"]
  /\ admin_actions = <<>>
  /\ adminCalls = [a \in Admins |-> NoAdminCall]

Init ==
  /\ InitDashboard
  /\ call = NoCall
  /\ returned = NotReturned
  /\ InitAdmin

\* history: the record of a detectLocation call that resolved with result
Ended(attempt, result) ==
  [state |-> result.state,
   error |-> result.error,
   visited |-> IF attempt.visited[Len(attempt.visited)] = result.state
               THEN attempt.visited
               ELSE Append(attempt.visited, result.state),
   acquired |-> attempt.coords,
   queries |-> attempt.queries,
   requests |-> attempt.requests,
   discarded |-> attempt.discarded,
   code |-> attempt.code,
   fetch |-> attempt.fetch,
   rejected |-> result.thrown]

\* requestLocationFailed without setManualLocationMode(true)
requestLocationFailed_NoManualMode(result, atts, attempt) ==
  /\ locationState' = result.state
  /\ locationError' = OrElse(result.error, "Failed to detect location")
  /\ attempts' = Observe(atts, result.state)
  /\ ended' = Ended(attempt, result)
  /\ UNCHANGED <<coordinates, detectedStreet, detectedCity, locationSource,
                 manualLocationMode>>

\* requestLocationFailed without setLocationState(state)
requestLocationFailed_KeepsState(result, atts, attempt) ==
  /\ locationError' = OrElse(result.error, "Failed to detect location")
  /\ manualLocationMode' = TRUE
  /\ attempts' = atts
  /\ ended' = Ended(attempt, result)
  /\ UNCHANGED <<locationState, coordinates, detectedStreet, detectedCity,
                 locationSource>>

\* requestLocation, lines 47-52: detectLocation gave an error
requestLocationFailed(result, atts, attempt) ==
  /\ locationState' = result.state
  /\ locationError' = OrElse(result.error, "Failed to detect location")
  /\ manualLocationMode' = TRUE
  /\ attempts' = Observe(atts, result.state)
  /\ ended' = Ended(attempt, result)
  /\ UNCHANGED <<coordinates, detectedStreet, detectedCity, locationSource>>

\* requestLocation, lines 66-71: the catch block, detectLocation was rejected
requestLocationThrew(result, atts, attempt) ==
  /\ locationState' = "error"
  /\ locationError' = "An unexpected error occurred"
  /\ manualLocationMode' = TRUE
  /\ attempts' = Observe(atts, "error")
  /\ ended' = Ended(attempt, result)
  /\ UNCHANGED <<coordinates, detectedStreet, detectedCity, locationSource>>

\* requestLocation, lines 54-62: detectLocation gave a location
requestLocationSucceeded(result, atts, attempt) ==
  /\ coordinates' = result.data.coordinates
  /\ detectedStreet' = result.data.address.street_name
  /\ detectedCity' = result.data.address.city
  /\ locationSource' = "auto"
  /\ locationState' = "success"
  /\ attempts' = Observe(atts, "success")
  /\ ended' = Ended(attempt, result)
  /\ origin' = [coordinates |-> "attempt", address |-> "attempt"]
  /\ UNCHANGED <<locationError, manualLocationMode>>

NewAttempt ==
  [phase |-> "acquiring", coords |-> Null, visited |-> <<"detecting">>,
   queries |-> 0, requests |-> 0, discarded |-> FALSE, code |-> -1,
   fetch |-> "none"]

\* requestLocation up to its first suspension; manual is the manual-entry mode
\* its caller leaves
requestLocation(manual) ==
  IF supported
  THEN \* getCurrentLocation calls navigator.geolocation.getCurrentPosition
       /\ locationState' = "detecting"
       /\ locationError' = NoMessage
       /\ manualLocationMode' = manual
       /\ attempts' = Append(Observe(attempts, "detecting"),
                             [NewAttempt EXCEPT !.queries = 1])
       /\ origin' = Age(origin)
       /\ ended' = NoAttempt
       /\ UNCHANGED <<coordinates, detectedStreet, detectedCity,
                      locationSource>>
  ELSE \* no suspension: detectLocation resolves with 'unsupported' at once
       /\ requestLocationFailed(
            detectLocationNoCoordinates(getCurrentLocationUnsupported),
            Observe(attempts, "detecting"), NewAttempt)
       /\ origin' = Age(origin)

\* useEffect(() => { requestLocation(); }, [])
Mount ==
  /\ ~mounted
  /\ mounted' = TRUE
  /\ requestLocation(manualLocationMode)
  /\ UNCHANGED <<uploadedImage, uploadedFile, submitting, submitError, supported, readers, submission>>
  /\ UNCHANGED <<call, returned, admin>>

\* PositionCallback that queries the platform once more after an error
PositionCallback_RetriesOnError(i, outcome) ==
  LET attempt == [attempts[i] EXCEPT !.code = outcome.code]
      coordResult == getCurrentLocation(outcome)
  IN /\ attempts[i].phase = "acquiring"
     /\ IF detectLocationStopsEarly(coordResult) /\ attempts[i].queries < 2
        THEN /\ attempts' = [attempts EXCEPT ![i] =
                               [attempt EXCEPT !.queries = @ + 1]]
             /\ ended' = NoAttempt
             /\ UNCHANGED <<locationState, locationError, manualLocationMode,
                            coordinates, detectedStreet, detectedCity,
                            locationSource, origin>>
        ELSE IF detectLocationStopsEarly(coordResult)
        THEN /\ requestLocationFailed(detectLocationNoCoordinates(coordResult),
                                      RemoveAt(attempts, i), attempt)
             /\ UNCHANGED origin
        ELSE /\ attempts' = [attempts EXCEPT ![i] =
                               [attempt EXCEPT !.phase = "geocoding",
                                               !.coords = coordResult.data,
                                               !.requests = @ + 1]]
             /\ ended' = NoAttempt
             /\ UNCHANGED <<locationState, locationError, manualLocationMode,
                            coordinates, detectedStreet, detectedCity,
                            locationSource, origin>>
     /\ UNCHANGED <<uploadedImage, uploadedFile, submitting, submitError,
                    supported, mounted, readers, submission>>
     /\ UNCHANGED <<call, returned, admin>>

\* the success or error callback of getCurrentPosition, for the pending call i
PositionCallback(i, outcome) ==
  LET attempt == [attempts[i] EXCEPT !.code = outcome.code]
      coordResult == getCurrentLocation(outcome)
  IN /\ attempts[i].phase = "acquiring"
     /\ IF detectLocationStopsEarly(coordResult)
        THEN /\ requestLocationFailed(detectLocationNoCoordinates(coordResult),
                                      RemoveAt(attempts, i), attempt)
             /\ UNCHANGED origin
        ELSE \* reverseGeocode issues its fetch
             /\ attempts' = [attempts EXCEPT ![i] =
                               [attempt EXCEPT !.phase = "geocoding",
                                               !.coords = coordResult.data,
                                               !.requests = @ + 1]]
             /\ ended' = NoAttempt
             /\ UNCHANGED <<locationState, locationError, manualLocationMode,
                            coordinates, detectedStreet, detectedCity,
                            locationSource, origin>>
     /\ UNCHANGED <<uploadedImage, uploadedFile, submitting, submitError, supported, mounted, readers,
                    submission>>
     /\ UNCHANGED <<call, returned, admin>>

\* the fetch of reverseGeocode settles, for the pending call i
FetchSettled(i, outcome) ==
  LET attempt == [attempts[i] EXCEPT !.fetch = outcome.kind]
      result == detectLocationGeocoded(attempt.coords, reverseGeocode(outcome))
  IN /\ attempt.phase = "geocoding"
     /\ IF result.thrown
        THEN /\ requestLocationThrew(result, RemoveAt(attempts, i), attempt)
             /\ UNCHANGED origin
        ELSE IF result.error # NoMessage \/ result.data = Null
        THEN /\ requestLocationFailed(result, RemoveAt(attempts, i), attempt)
             /\ UNCHANGED origin
        ELSE requestLocationSucceeded(result, RemoveAt(attempts, i), attempt)
     /\ UNCHANGED <<uploadedImage, uploadedFile, submitting, submitError, supported, mounted, readers,
                    submission>>
     /\ UNCHANGED <<call, returned, admin>>

\* handleImageUpload: the file input is rendered while there is no image
handleImageUpload ==
  /\ mounted
  /\ ~uploadedImage
  /\ readers < MaxReaders
  /\ uploadedFile' = TRUE
  /\ readers' = readers + 1
  /\ ended' = NoAttempt
  /\ UNCHANGED <<locationState, uploadedImage, detectedStreet, detectedCity,
                 locationError, coordinates, submitting, submitError,
                 manualLocationMode, locationSource, supported, mounted,
                 attempts, submission, origin>>
  /\ UNCHANGED <<call, returned, admin>>

\* reader.onloadend
ReaderLoadEnd ==
  /\ readers > 0
  /\ readers' = readers - 1
  /\ uploadedImage' = TRUE
  /\ ended' = NoAttempt
  /\ UNCHANGED <<locationState, uploadedFile, detectedStreet, detectedCity,
                 locationError, coordinates, submitting, submitError,
                 manualLocationMode, locationSource, supported, mounted,
                 attempts, submission, origin>>
  /\ UNCHANGED <<call, returned, admin>>

\* onClick of the remove-image button, lines 278-283
RemoveImage ==
  /\ uploadedImage
  /\ uploadedImage' = FALSE
  /\ locationState' = "idle"
  /\ detectedStreet' = <<>>
  /\ detectedCity' = <<>>
  /\ attempts' = Discard(Observe(attempts, "idle"))
  /\ origin' = [origin EXCEPT !.address = "none"]
  /\ ended' = NoAttempt
  /\ UNCHANGED <<uploadedFile, locationError, coordinates, submitting,
                 submitError, manualLocationMode, locationSource, supported,
                 mounted, readers, submission>>
  /\ UNCHANGED <<call, returned, admin>>

\* is the button 'Enter Location Manually' rendered, lines 298 and 322
EnterManuallyShown == uploadedImage /\ locationError # NoMessage /\ ~manualLocationMode

\* is the manual entry form rendered, lines 298 and 379
ManualFormShown == uploadedImage /\ manualLocationMode

\* is the button 'Try Auto-Detect' rendered, line 431
TryAutoDetectShown == ManualFormShown /\ supported

\* is the button 'Edit' rendered, lines 298 and 341
EditShown == uploadedImage /\ locationState = "success" /\ ~manualLocationMode

\* onClick of 'Enter Location Manually', line 332
EnterLocationManually ==
  /\ EnterManuallyShown
  /\ manualLocationMode' = TRUE
  /\ ended' = NoAttempt
  /\ UNCHANGED <<locationState, uploadedImage, uploadedFile, detectedStreet,
                 detectedCity, locationError, coordinates, submitting,
                 submitError, locationSource, supported, mounted, attempts,
                 readers, submission, origin>>
  /\ UNCHANGED <<call, returned, admin>>

\* onClick of 'Edit', lines 350-353
EditLocation ==
  /\ EditShown
  /\ manualLocationMode' = TRUE
  /\ locationSource' = "manual"
  /\ ended' = NoAttempt
  /\ UNCHANGED <<locationState, uploadedImage, uploadedFile, detectedStreet,
                 detectedCity, locationError, coordinates, submitting,
                 submitError, supported, mounted, attempts, readers,
                 submission, origin>>
  /\ UNCHANGED <<call, returned, admin>>

\* onChange of the street input, lines 400-403
TypeStreet(value) ==
  /\ ManualFormShown
  /\ detectedStreet' = value
  /\ locationError' = NoMessage
  /\ origin' = [origin EXCEPT !.address = "typed"]
  /\ ended' = NoAttempt
  /\ UNCHANGED <<locationState, uploadedImage, uploadedFile, detectedCity,
                 coordinates, submitting, submitError, manualLocationMode,
                 locationSource, supported, mounted, attempts, readers,
                 submission>>
  /\ UNCHANGED <<call, returned, admin>>

\* onChange of the city input, lines 414-417
TypeCity(value) ==
  /\ ManualFormShown
  /\ detectedCity' = value
  /\ locationError' = NoMessage
  /\ origin' = [origin EXCEPT !.address = "typed"]
  /\ ended' = NoAttempt
  /\ UNCHANGED <<locationState, uploadedImage, uploadedFile, detectedStreet,
                 coordinates, submitting, submitError, manualLocationMode,
                 locationSource, supported, mounted, attempts, readers,
                 submission>>
  /\ UNCHANGED <<call, returned, admin>>

\* handleManualLocationSubmit that resets the LocationState when validation fails
handleManualLocationSubmit_ResetsOnInvalid ==
  LET validation == validateManualLocation(detectedStreet, detectedCity)
  IN /\ ManualFormShown
     /\ IF ~validation.valid
        THEN /\ locationError' = validation.error
             /\ locationState' = "idle"
             /\ attempts' = Observe(attempts, "idle")
             /\ UNCHANGED <<locationSource, manualLocationMode, coordinates, origin>>
        ELSE /\ locationSource' = "manual"
             /\ locationState' = "success"
             /\ locationError' = NoMessage
             /\ manualLocationMode' = FALSE
             /\ attempts' = Observe(attempts, "success")
             /\ IF coordinates = Null
                THEN /\ coordinates' = ManualPlaceholder
                     /\ origin' = [origin EXCEPT !.coordinates = "manual"]
                ELSE UNCHANGED <<coordinates, origin>>
     /\ ended' = NoAttempt
     /\ UNCHANGED <<uploadedImage, uploadedFile, detectedStreet, detectedCity,
                    submitting, submitError, supported, mounted, readers,
                    submission>>
     /\ UNCHANGED <<call, returned, admin>>

\* handleManualLocationSubmit that closes the manual form when validation fails
handleManualLocationSubmit_ClosesFormOnInvalid ==
  LET validation == validateManualLocation(detectedStreet, detectedCity)
  IN /\ ManualFormShown
     /\ IF ~validation.valid
        THEN /\ locationError' = validation.error
             /\ manualLocationMode' = FALSE
             /\ UNCHANGED <<locationSource, locationState, coordinates,
                            attempts, origin>>
        ELSE /\ locationSource' = "manual"
             /\ locationState' = "success"
             /\ locationError' = NoMessage
             /\ manualLocationMode' = FALSE
             /\ attempts' = Observe(attempts, "success")
             /\ IF coordinates = Null
                THEN /\ coordinates' = ManualPlaceholder
                     /\ origin' = [origin EXCEPT !.coordinates = "manual"]
                ELSE UNCHANGED <<coordinates, origin>>
     /\ ended' = NoAttempt
     /\ UNCHANGED <<uploadedImage, uploadedFile, detectedStreet,
                    detectedCity, submitting, submitError, supported,
                    mounted, readers, submission>>
     /\ UNCHANGED <<call, returned, admin>>

\* onClick of 'Confirm Location'
\* handleManualLocationSubmit that leaves the coordinates as they are
handleManualLocationSubmit_NoPlaceholder ==
  LET validation == validateManualLocation(detectedStreet, detectedCity)
  IN /\ ManualFormShown
     /\ IF ~validation.valid
        THEN /\ locationError' = validation.error
             /\ UNCHANGED <<locationSource, locationState, manualLocationMode,
                            coordinates, attempts, origin>>
        ELSE /\ locationSource' = "manual"
             /\ locationState' = "success"
             /\ locationError' = NoMessage
             /\ manualLocationMode' = FALSE
             /\ attempts' = Observe(attempts, "success")
             /\ UNCHANGED <<coordinates, origin>>
     /\ ended' = NoAttempt
     /\ UNCHANGED <<uploadedImage, uploadedFile, detectedStreet,
                    detectedCity, submitting, submitError, supported,
                    mounted, readers, submission>>
     /\ UNCHANGED <<call, returned, admin>>

handleManualLocationSubmit ==
  LET validation == validateManualLocation(detectedStreet, detectedCity)
  IN /\ ManualFormShown
     /\ IF ~validation.valid
        THEN /\ locationError' = validation.error
             /\ UNCHANGED <<locationSource, locationState, manualLocationMode,
                            coordinates, attempts, origin>>
        ELSE /\ locationSource' = "manual"
             /\ locationState' = "success"
             /\ locationError' = NoMessage
             /\ manualLocationMode' = FALSE
             /\ attempts' = Observe(attempts, "success")
             /\ IF coordinates = Null
                THEN /\ coordinates' = ManualPlaceholder
                     /\ origin' = [origin EXCEPT !.coordinates = "manual"]
                ELSE UNCHANGED <<coordinates, origin>>
     /\ ended' = NoAttempt
     /\ UNCHANGED <<uploadedImage, uploadedFile, detectedStreet,
                    detectedCity, submitting, submitError, supported,
                    mounted, readers, submission>>
     /\ UNCHANGED <<call, returned, admin>>

\* TryAutoDetect without setManualLocationMode(false)
TryAutoDetect_KeepsManualMode ==
  /\ TryAutoDetectShown
  /\ Len(attempts) < MaxInFlight
  /\ requestLocation(manualLocationMode)
  /\ UNCHANGED <<uploadedImage, uploadedFile, submitting, submitError,
                 supported, mounted, readers, submission>>
  /\ UNCHANGED <<call, returned, admin>>

\* onClick of 'Try Auto-Detect', lines 434-438
TryAutoDetect ==
  /\ TryAutoDetectShown
  /\ Len(attempts) < MaxInFlight
  /\ requestLocation(FALSE)
  /\ UNCHANGED <<uploadedImage, uploadedFile, submitting, submitError,
                 supported, mounted, readers, submission>>
  /\ UNCHANGED <<call, returned, admin>>

\* disabled={submitting || !uploadedImage || locationState !== 'success'}
SubmitDisabled == submitting \/ ~uploadedImage \/ locationState # "success"

\* handleSubmit up to its first suspension, await uploadReportImage(...)
handleSubmit ==
  /\ ~SubmitDisabled
  /\ IF ~uploadedFile
       THEN /\ submitError' = "Please upload an image"
            /\ UNCHANGED <<coordinates, submitting, submission, origin>>
     ELSE IF locationState # "success"
       THEN /\ submitError' = "Please detect or enter your location before submitting"
            /\ UNCHANGED <<coordinates, submitting, submission, origin>>
     ELSE IF detectedStreet = <<>> \/ detectedCity = <<>>
       THEN /\ submitError' = "Street name and city are required"
            /\ UNCHANGED <<coordinates, submitting, submission, origin>>
     ELSE /\ submitError' = NoMessage
          /\ IF \/ coordinates = Null
                \/ /\ coordinates.latitude = 0
                   /\ coordinates.longitude = 0
                   /\ locationSource = "manual"
             THEN /\ coordinates' = DefaultFallback
                  /\ origin' = [origin EXCEPT !.coordinates = "default"]
             ELSE UNCHANGED <<coordinates, origin>>
          /\ submitting' = TRUE
          \* the rest of the call reads the values of this render
          /\ submission' = [phase |-> "uploading",
                            coordinates |-> coordinates,
                            street_name |-> detectedStreet,
                            city |-> detectedCity,
                            typed |-> origin.address = "typed",
                            undetected |-> origin.coordinates = "manual",
                            uploadedFile |-> uploadedFile,
                            locationState |-> locationState,
                            imageUrl |-> FALSE]
  /\ ended' = NoAttempt
  /\ UNCHANGED <<locationState, uploadedImage, uploadedFile, detectedStreet,
                 detectedCity, locationError, manualLocationMode,
                 locationSource, supported, mounted, attempts, readers>>
  /\ UNCHANGED <<call, returned, admin>>

\* UploadSettled that does not look at the result of the upload
UploadSettled_IgnoresUploadError(uploaded) ==
  /\ submission.phase = "uploading"
  /\ IF submission.coordinates = Null
       THEN \* coordinates!.latitude throws a TypeError
            /\ submitError' = "Cannot read properties of null"
            /\ submitting' = FALSE
            /\ submission' = NoSubmission
     ELSE \* createReport is called
          /\ submission' = [submission EXCEPT !.phase = "creating",
                                              !.imageUrl = uploaded]
          /\ UNCHANGED <<submitError, submitting>>
  /\ ended' = NoAttempt
  /\ UNCHANGED <<locationState, uploadedImage, uploadedFile, detectedStreet,
                 detectedCity, locationError, coordinates,
                 manualLocationMode, locationSource, supported, mounted,
                 attempts, readers, origin>>
  /\ UNCHANGED <<call, returned, admin>>

\* uploadReportImage resolves, lines 144-158
UploadSettled(uploaded) ==
  /\ submission.phase = "uploading"
  /\ IF ~uploaded
       THEN /\ submitError' = "Failed to upload image"
            /\ submitting' = FALSE
            /\ submission' = NoSubmission
     ELSE IF submission.coordinates = Null
       THEN \* coordinates!.latitude throws a TypeError
            /\ submitError' = "Cannot read properties of null"
            /\ submitting' = FALSE
            /\ submission' = NoSubmission
     ELSE \* createReport is called
          /\ submission' = [submission EXCEPT !.phase = "creating",
                                              !.imageUrl = uploaded]
          /\ UNCHANGED <<submitError, submitting>>
  /\ ended' = NoAttempt
  /\ UNCHANGED <<locationState, uploadedImage, uploadedFile, detectedStreet,
                 detectedCity, locationError, coordinates,
                 manualLocationMode, locationSource, supported, mounted,
                 attempts, readers, origin>>
  /\ UNCHANGED <<call, returned, admin>>

\* createReport resolves, lines 160-183
CreateReportSettled(created) ==
  /\ submission.phase = "creating"
  /\ submission' = NoSubmission
  /\ submitting' = FALSE
  /\ IF ~created
     THEN /\ submitError' = "Failed to submit report"
          /\ UNCHANGED <<uploadedImage, uploadedFile,
                         locationState, detectedStreet, detectedCity,
                         coordinates, locationSource, manualLocationMode,
                         attempts, origin>>
     ELSE /\ uploadedImage' = FALSE
          /\ uploadedFile' = FALSE
          /\ locationState' = "idle"
          /\ detectedStreet' = <<>>
          /\ detectedCity' = <<>>
          /\ coordinates' = Null
          /\ locationSource' = "auto"
          /\ manualLocationMode' = FALSE
          /\ attempts' = Discard(Observe(attempts, "idle"))
          /\ origin' = [coordinates |-> "none", address |-> "none"]
          /\ UNCHANGED submitError
  /\ ended' = NoAttempt
  /\ UNCHANGED <<locationError, supported, mounted, readers>>
  /\ UNCHANGED <<call, returned, admin>>

Next ==
  \/ Mount
  \/ \E i \in 1..Len(attempts), outcome \in PlatformOutcomes :
       PositionCallback(i, outcome)
  \/ \E i \in 1..Len(attempts), outcome \in FetchOutcomes :
       FetchSettled(i, outcome)
  \/ handleImageUpload
  \/ ReaderLoadEnd
  \/ RemoveImage
  \/ EnterLocationManually
  \/ EditLocation
  \/ \E value \in TypedStreets : TypeStreet(value)
  \/ \E value \in TypedCities : TypeCity(value)
  \/ handleManualLocationSubmit
  \/ TryAutoDetect
  \/ handleSubmit
  \/ \E uploaded \in BOOLEAN : UploadSettled(uploaded)
  \/ \E created \in BOOLEAN : CreateReportSettled(created)

Spec == Init /\ [][Next]_vars

\* the platform invokes the error callback of a pending getCurrentPosition
\* with TIMEOUT: the options of the call set timeout: 10000
PlatformTimesOut ==
  \E i \in 1..Len(attempts) :
    PositionCallback(i, [kind |-> "error", coords |-> Null, code |-> TIMEOUT])

\* the fetch of a pending reverseGeocode settles with a response that is not ok
GeocodingFails ==
  \E i \in 1..Len(attempts) :
    FetchSettled(i, [kind |-> "not-ok", message |-> NoMessage,
                     address |-> EmptyAddress])

\* the dashboard when no platform query and no geocoding request stays
\* pending forever: each of the two actions is enabled exactly while such a
\* call is pending, and any other callback or settlement disables it too.
\* Nothing is assumed of the user.
FairSpec == Spec /\ WF_vars(PlatformTimesOut) /\ WF_vars(GeocodingFails)

TypeOK ==
  /\ locationState \in LocationStates
  /\ uploadedImage \in BOOLEAN
  /\ uploadedFile \in BOOLEAN
  /\ manualLocationMode \in BOOLEAN
  /\ locationSource \in {"auto", "manual"}
  /\ readers \in 0..MaxReaders
  /\ Len(attempts) <= MaxInFlight
  /\ submission.phase \in {"none", "uploading", "creating"}

(***************************************************************************)
(* The functions of utils/location.ts on their own: a call is drawn from   *)
(* Calls and the function returns.                                         *)
(***************************************************************************)
\* the longest street name drawn character by character
MaxLen == 3

Alphabet == {"a", "S", "t", " ", ",", "."}

RECURSIVE StringsOfLength(_)
StringsOfLength(n) ==
  IF n = 0 THEN {<<>>}
  ELSE {Append(s, c) : s \in StringsOfLength(n - 1), c \in Alphabet}

\* "OAK   AVE"
OakAve == <<"O","A","K"," "," "," ","A","V","E">>

\* "m.g. rd"
MGRd == <<"m",".","g","."," ","r","d">>

Streets == UNION {StringsOfLength(n) : n \in 0..MaxLen} \cup {OakAve, MGRd}

\* the values of the fields of the address objects: absent, blank,
\* punctuation only, a name
RoadValues == { <<>>, <<" ">>, <<",", " ", ",">>, <<"m","g"," ","r","d">> }

BuildingValues == { <<>>, <<"H","a","l","l">> }

SuburbValues == { <<>>, <<"e","a","s","t">> }

CityValues == { <<>>, <<" ">>, <<"P","u","n","e">> }

CountyValues == { <<>>, <<"K","e","n","t">> }

GeocoderAddresses ==
  { [EmptyAddress EXCEPT !["road"] = road, !["building"] = building,
                         !["suburb"] = suburb, !["city"] = city,
                         !["county"] = county] :
      road \in RoadValues, building \in BuildingValues,
      suburb \in SuburbValues, city \in CityValues, county \in CountyValues }

GeocoderOutcomes ==
  { o \in FetchOutcomes : o.kind # "address" } \cup
  { [kind |-> "address", message |-> NoMessage, address |-> a] :
      a \in GeocoderAddresses }

\* "Oak Avenue"
OakAvenue == <<"O","a","k"," ","A","v","e","n","u","e">>

\* what validateManualLocation is called with
ManualStreets ==
  { <<>>, <<" ", " ", " ">>, <<"a","b">>, <<" ","a","b"," ">>, <<"a"," ","b">>,
    <<"a","b","c">>, <<" ","a","b","c">>, OakAvenue }

ManualCities ==
  { <<>>, <<" ", " ">>, <<"S">>, <<" ","S"," ">>, <<"S","F">>, <<"S"," ","F">>,
    <<"C","i","t","y">> }

Calls ==
  { [function |-> "normalizeStreetName", street |-> s] : s \in Streets } \cup
  { [function |-> "validateManualLocation", street |-> s, city |-> c] :
      s \in ManualStreets, c \in ManualCities } \cup
  { [function |-> "detectLocation", coordinates |-> p, outcome |-> o] :
      p \in Positions, o \in GeocoderOutcomes } \cup
  { [function |-> "detectLocation without coordinates",
     supported |-> b, outcome |-> o] :
      b \in BOOLEAN, o \in {x \in PlatformOutcomes : x.kind = "error"} }

UtilsInit ==
  /\ InitDashboard
  /\ call \in Calls
  /\ returned = NotReturned
  /\ InitAdmin

normalizeStreetNameReturns ==
  /\ call.function = "normalizeStreetName"
  /\ ~returned.done
  /\ returned' = [done |-> TRUE, value |-> normalizeStreetName(call.street)]
  /\ UNCHANGED <<call, dashboard, admin>>

\* detectLocation once getCurrentLocation gave call.coordinates and the fetch
\* of reverseGeocode settled with call.outcome
detectLocationReturns ==
  /\ call.function = "detectLocation"
  /\ ~returned.done
  /\ returned' = [done |-> TRUE,
                  value |-> detectLocationGeocoded(call.coordinates,
                                                   reverseGeocode(call.outcome))]
  /\ UNCHANGED <<call, dashboard, admin>>

\* detectLocation once getCurrentLocation gave no coordinates: without
\* navigator.geolocation, or with the error call.outcome of the platform
detectLocationReturnsEarly ==
  /\ call.function = "detectLocation without coordinates"
  /\ ~returned.done
  /\ returned' = [done |-> TRUE,
                  value |-> detectLocationNoCoordinates(
                              IF call.supported
                              THEN getCurrentLocation(call.outcome)
                              ELSE getCurrentLocationUnsupported)]
  /\ UNCHANGED <<call, dashboard, admin>>

validateManualLocationReturns ==
  /\ call.function = "validateManualLocation"
  /\ ~returned.done
  /\ returned' = [done |-> TRUE,
                  value |-> validateManualLocation(call.street, call.city)]
  /\ UNCHANGED <<call, dashboard, admin>>

UtilsNext ==
  \/ normalizeStreetNameReturns
  \/ validateManualLocationReturns
  \/ detectLocationReturns
  \/ detectLocationReturnsEarly

UtilsSpec == UtilsInit /\ [][UtilsNext]_vars

(***************************************************************************)
(* db/admin.ts: updateReportStatus and deleteReport, one step for the call *)
(* and one for every awaited statement; failed tells that the statement    *)
(* came back with an error of the service and was not executed             *)
(***************************************************************************)
\* the call returns; the record stays until the admin makes the next call
AdminReturns(a, success) ==
  [adminCalls EXCEPT ![a].phase = "returned", ![a].success = success]

\* the rows of admin_actions without those of reportId: ON DELETE CASCADE
RECURSIVE WithoutReport(_, _)
WithoutReport(actions, reportId) ==
  IF actions = <<>> THEN <<>>
  ELSE IF actions[1].report_id = reportId
    THEN WithoutReport(Tail(actions), reportId)
  ELSE <<actions[1]>> \o WithoutReport(Tail(actions), reportId)

\* the calls of updateReportStatus and deleteReport made so far
RECURSIVE AdminCallsMade(_)
AdminCallsMade(as) ==
  IF as = {} THEN 0
  ELSE LET a == CHOOSE x \in as : TRUE
       IN adminCalls[a].made + AdminCallsMade(as \ {a})

\* updateReportStatus up to its first await: the select of the report
updateReportStatus(a, reportId, newStatus) ==
  /\ adminCalls[a].phase \in {"idle", "returned"}
  /\ AdminCallsMade(Admins) < MaxCalls
  /\ adminCalls' = [adminCalls EXCEPT ![a] =
       [NoAdminCall EXCEPT !.op = "update", !.phase = "select",
                           !.reportId = reportId, !.newStatus = newStatus,
                           !.made = adminCalls[a].made + 1]]
  /\ UNCHANGED <<reports, admin_actions, dashboard, call, returned>>

\* the select of updateReportStatus returns, lines 20-29; then the update
\* is sent
UpdateSelectReturns(a, failed) ==
  LET c == adminCalls[a]
  IN /\ c.op = "update" /\ c.phase = "select"
     /\ IF failed \/ reports[c.reportId] = NoRow
        THEN \* fetchError: .single() finds no row, or the request failed
             adminCalls' = AdminReturns(a, FALSE)
        ELSE adminCalls' = [adminCalls EXCEPT
                             ![a].previousStatus = reports[c.reportId],
                             ![a].phase = "update"]
     /\ UNCHANGED <<reports, admin_actions, dashboard, call, returned>>

\* the update of updateReportStatus returns, lines 32-39; then the insert
\* into admin_actions is sent
UpdateUpdateReturns(a, failed) ==
  LET c == adminCalls[a]
  IN /\ c.op = "update" /\ c.phase = "update"
     /\ IF failed \/ reports[c.reportId] = NoRow
        THEN \* updateError
             /\ adminCalls' = AdminReturns(a, FALSE)
             /\ UNCHANGED reports
        ELSE /\ reports' = [reports EXCEPT ![c.reportId] = c.newStatus]
             /\ adminCalls' = [adminCalls EXCEPT
                                 ![a].before = reports[c.reportId],
                                 ![a].phase = "log"]
     /\ UNCHANGED <<admin_actions, dashboard, call, returned>>

\* the insert of updateReportStatus returns, lines 42-56: an error is only
\* logged to the console
UpdateInsertReturns(a, failed) ==
  LET c == adminCalls[a]
  IN /\ c.op = "update" /\ c.phase = "log"
     /\ IF failed \/ reports[c.reportId] = NoRow
        THEN \* actionError, also for the foreign key on report_id
             UNCHANGED admin_actions
        ELSE admin_actions' = Append(admin_actions,
               [admin_id |-> a, report_id |-> c.reportId,
                previous_status |-> c.previousStatus,
                new_status |-> c.newStatus])
     /\ adminCalls' = AdminReturns(a, TRUE)
     /\ UNCHANGED <<reports, dashboard, call, returned>>

\* deleteReport up to its first await: the select of the report
deleteReport(a, reportId) ==
  /\ adminCalls[a].phase \in {"idle", "returned"}
  /\ AdminCallsMade(Admins) < MaxCalls
  /\ adminCalls' = [adminCalls EXCEPT ![a] =
       [NoAdminCall EXCEPT !.op = "delete", !.phase = "select",
                           !.reportId = reportId, !.newStatus = "deleted",
                           !.made = adminCalls[a].made + 1]]
  /\ UNCHANGED <<reports, admin_actions, dashboard, call, returned>>

\* the select of deleteReport returns, lines 167-173; then the insert into
\* admin_actions is sent
DeleteSelectReturns(a, failed) ==
  LET c == adminCalls[a]
  IN /\ c.op = "delete" /\ c.phase = "select"
     /\ IF failed \/ reports[c.reportId] = NoRow
        THEN adminCalls' = AdminReturns(a, FALSE)
        ELSE adminCalls' = [adminCalls EXCEPT
                             ![a].previousStatus = reports[c.reportId],
                             ![a].phase = "log"]
     /\ UNCHANGED <<reports, admin_actions, dashboard, call, returned>>

\* the insert of deleteReport returns, lines 176-183: its result is not
\* looked at; then the delete is sent
DeleteInsertReturns(a, failed) ==
  LET c == adminCalls[a]
  IN /\ c.op = "delete" /\ c.phase = "log"
     /\ IF failed \/ reports[c.reportId] = NoRow
        THEN UNCHANGED admin_actions
        ELSE admin_actions' = Append(admin_actions,
               [admin_id |-> a, report_id |-> c.reportId,
                previous_status |-> c.previousStatus,
                new_status |-> "deleted"])
     /\ adminCalls' = [adminCalls EXCEPT ![a].phase = "delete"]
     /\ UNCHANGED <<reports, dashboard, call, returned>>

\* the delete of deleteReport returns, lines 186-193; deleting the row
\* deletes the rows of admin_actions that reference it
DeleteDeleteReturns(a, failed) ==
  LET c == adminCalls[a]
  IN /\ c.op = "delete" /\ c.phase = "delete"
     /\ IF failed
        THEN \* deleteError
             /\ adminCalls' = AdminReturns(a, FALSE)
             /\ UNCHANGED <<reports, admin_actions>>
        ELSE /\ reports' = [reports EXCEPT ![c.reportId] = NoRow]
             /\ admin_actions' = WithoutReport(admin_actions, c.reportId)
             /\ adminCalls' =
                  [AdminReturns(a, TRUE) EXCEPT
                     ![a].removed = reports[c.reportId] # NoRow]
     /\ UNCHANGED <<dashboard, call, returned>>

AdminInit ==
  /\ InitDashboard
  /\ call = NoCall
  /\ returned = NotReturned
  /\ InitAdmin

AdminNext ==
  \/ \E a \in Admins, reportId \in ReportIds, newStatus \in NewStatuses :
       updateReportStatus(a, reportId, newStatus)
  \/ \E a \in Admins, failed \in BOOLEAN : UpdateSelectReturns(a, failed)
  \/ \E a \in Admins, failed \in BOOLEAN : UpdateUpdateReturns(a, failed)
  \/ \E a \in Admins, failed \in BOOLEAN : UpdateInsertReturns(a, failed)
  \/ \E a \in Admins, reportId \in ReportIds : deleteReport(a, reportId)
  \/ \E a \in Admins, failed \in BOOLEAN : DeleteSelectReturns(a, failed)
  \/ \E a \in Admins, failed \in BOOLEAN : DeleteInsertReturns(a, failed)
  \/ \E a \in Admins, failed \in BOOLEAN : DeleteDeleteReturns(a, failed)

AdminSpec == AdminInit /\ [][AdminNext]_vars

(***************************************************************************)
(* Properties                                                              *)
(***************************************************************************)
Range(seq) == {seq[i] : i \in 1..Len(seq)}

\* the step is a call of requestLocation that reaches the platform
NewDetectCall ==
  /\ Len(attempts') = Len(attempts) + 1
  /\ attempts'[Len(attempts')].phase = "acquiring"

\* C1: a detectLocation call that resolves with 'success' has made the
\* LocationState of the dashboard visit exactly detecting, geocoding, success
C1_SuccessVisitsGeocoding ==
  ended.state = "success" =>
    ended.visited = <<"detecting", "geocoding", "success">>

\* C2: when the platform reports PERMISSION_DENIED the call ends in
\* 'permission-denied', which becomes the LocationState; the states visited
\* begin with detecting, end with permission-denied and never include
\* geocoding, and the call has issued no request to the geocoder
C2_PermissionDeniedSkipsGeocoding ==
  ended.code = PERMISSION_DENIED =>
    /\ ended.state = "permission-denied"
    /\ locationState = "permission-denied"
    /\ ended.visited[1] = "detecting"
    /\ ended.visited[Len(ended.visited)] = "permission-denied"
    /\ "geocoding" \notin Range(ended.visited)
    /\ ended.requests = 0
    /\ ended.acquired = Null

C2_Witness ==
  /\ ended.code = PERMISSION_DENIED
  /\ ended.visited = <<"detecting", "permission-denied">>

\* C3, as claimed: the LocationState changes to 'idle' or to 'detecting'
\* only in a step that makes a new call of detectLocation
C3_NoRegressionWithoutDetect ==
  [][(locationState' # locationState /\ locationState' \in {"idle", "detecting"})
       => NewDetectCall]_vars

\* C3, amended: the LocationState changes to 'detecting' only by a new call
\* of detectLocation and to 'idle' only when the caller resets the form and
\* clears image, street and city; every other change ends in 'success' or in
\* a failure state
C3_RegressionOnlyByDetectOrReset ==
  [][locationState' # locationState =>
       \/ locationState' = "detecting" /\ NewDetectCall
       \/ /\ locationState' = "idle"
          /\ ~uploadedImage'
          /\ detectedStreet' = <<>>
          /\ detectedCity' = <<>>
       \/ locationState' \in {"success"} \cup FailureStates]_vars

\* a detection has succeeded and the form was reset afterwards
C3_Witness ==
  /\ locationState = "idle"
  /\ coordinates \in Positions
  /\ ~DetectInFlight

\* C4: the state is 'success' with source 'manual' only for a street and city
\* that validateManualLocation accepts, and createReport gets a typed street
\* or city only if validateManualLocation accepts them
C4_ManualValuesValidated ==
  /\ (locationState = "success" /\ locationSource = "manual")
       => validateManualLocation(detectedStreet, detectedCity).valid
  /\ (submission.phase = "creating" /\ submission.typed)
       => validateManualLocation(submission.street_name, submission.city).valid

\* C5: the street_name and city that createReport gets are non-empty and
\* equal to their own normalization
C5_ReportAddressNormalized ==
  submission.phase = "creating" =>
    /\ submission.street_name # <<>>
    /\ submission.city # <<>>
    /\ normalizeStreetName(submission.street_name) = submission.street_name
    /\ normalizeStreetName(submission.city) = submission.city

C7_ManualEntryAvailable ==
  (uploadedImage /\ ~DetectInFlight /\ locationState # "success")
    => (ManualFormShown \/ EnterManuallyShown)

\* C8: when a detectLocation call ends in 'geocoding-failed', the dashboard
\* holds the coordinates that call acquired
C8_CoordinatesKeptOnGeocodingFailure ==
  ended.state = "geocoding-failed" => coordinates = ended.acquired

\* C9: once no detectLocation call is pending, neither the stored coordinates
\* nor the stored street and city are those of an earlier call
C9_NothingSurvivesAttempts ==
  ~DetectInFlight =>
    (origin.coordinates # "earlier" /\ origin.address # "earlier")

\* C10: the result of a detectLocation call that the caller discarded while
\* it was pending changes neither the LocationState nor the stored
\* coordinates, street and city
C10_DiscardedResultIgnored ==
  [][ended'.discarded =>
       UNCHANGED <<locationState, coordinates, detectedStreet, detectedCity>>]_vars

\* C11: at most one detectLocation call is pending in every state, and no
\* step makes a new call of detectLocation while an earlier one is pending
C11_SingleDetectInFlight ==
  /\ [](Cardinality({i \in 1..Len(attempts) : Detecting(attempts[i])}) <= 1)
  /\ [][NewDetectCall => ~DetectInFlight]_vars

\* a call made by 'Try Auto-Detect' is pending after an earlier call succeeded
C11_Witness ==
  /\ DetectInFlight
  /\ uploadedImage
  /\ origin.coordinates = "earlier"

\* C12: a detectLocation call whose platform query ended with an error code
\* ends in 'permission-denied' for PERMISSION_DENIED, in 'timeout' for
\* TIMEOUT and in 'error' for POSITION_UNAVAILABLE and for every other code,
\* and getCurrentLocation gives no coordinates for any error code
C12_PlatformErrorsAreTyped ==
  /\ ended.code \in PositionErrorCodes =>
       /\ ended.state = (IF ended.code = PERMISSION_DENIED THEN "permission-denied"
                         ELSE IF ended.code = TIMEOUT THEN "timeout"
                         ELSE "error")
       /\ ended.acquired = Null
  /\ \A code \in PositionErrorCodes :
       getCurrentLocation([kind |-> "error", coords |-> Null, code |-> code]).data
         = Null

\* the platform reported a code that is none of the three named ones
C12_Witness ==
  /\ ended.code \in PositionErrorCodes
  /\ ended.code \notin {PERMISSION_DENIED, TIMEOUT, POSITION_UNAVAILABLE}
  /\ ended.state = "error"
  /\ locationState = "error"

\* C13: without navigator.geolocation every detectLocation call ends in
\* 'unsupported', has made no query to the platform and no request to the
\* geocoder; no call ends in 'unsupported' otherwise
C13_UnsupportedMakesNoCall ==
  /\ (~supported /\ ended.state # "none") =>
       /\ ended.state = "unsupported"
       /\ ended.queries = 0
       /\ ended.requests = 0
       /\ ended.acquired = Null
  /\ ended.state = "unsupported" => ~supported
  /\ ~supported => attempts = <<>>

\* a call has just ended on a platform without geolocation
C13_Witness ==
  /\ ~supported
  /\ ended.state = "unsupported"
  /\ locationState = "unsupported"

\* C14: a detectLocation call whose request to the geocoder failed ends in
\* 'geocoding-failed'; its message is 'Geocoding service unavailable' when
\* the request was rejected or the response was not 2xx, and 'No address
\* found for this location' when the response has no address object
C14_GeocodingFailureMessages ==
  /\ ended.fetch \in {"rejected", "not-ok", "malformed", "no-address"} =>
       ended.state = "geocoding-failed"
  /\ ended.fetch \in {"rejected", "not-ok"} => ended.error = GeocodingUnavailable
  /\ ended.fetch = "no-address" => ended.error = NoAddressFound

\* C15: every detectLocation call resolves, for every outcome of the platform
\* query and of the request to the geocoder, with a result whose state is
\* 'success' or a failure state; the call is never rejected
C15_DetectNeverRejects ==
  ended.state # "none" \/ ended.rejected =>
    /\ ~ended.rejected
    /\ ended.state \in {"success"} \cup FailureStates
    /\ ended.state = "success" <=> ended.error = NoMessage

\* the body of the geocoder's response could not be parsed
C15_Witness ==
  /\ ended.fetch = "malformed"
  /\ ended.state = "geocoding-failed"
  /\ ~ended.rejected

\* the platform queries and geocoder requests made by the pending calls
RECURSIVE CallsMade(_)
CallsMade(atts) ==
  IF atts = <<>> THEN 0
  ELSE atts[1].queries + atts[1].requests + CallsMade(Tail(atts))

\* C16: a detectLocation call makes at most one query to the platform and at
\* most one request to the geocoder, and the step in which a call ends makes
\* no query and no request: the calls made by the pending calls only drop by
\* those of the call that ended, and no new call is pending
C16_NoRetry ==
  /\ [](\A i \in 1..Len(attempts) :
          attempts[i].queries <= 1 /\ attempts[i].requests <= 1)
  /\ [](ended.queries <= 1 /\ ended.requests <= 1)
  /\ [][ended'.state # "none" =>
          /\ Len(attempts') <= Len(attempts)
          /\ CallsMade(attempts') <= CallsMade(attempts)]_vars
  /\ [][CallsMade(attempts') > CallsMade(attempts) =>
          \/ NewDetectCall
          \/ \E i \in 1..Len(attempts) :
               /\ attempts[i].phase = "acquiring"
               /\ attempts'[i].phase = "geocoding"
               /\ attempts'[i].queries = attempts[i].queries]_vars

\* a call has failed after one query and one request, and none is pending
C16_Witness ==
  /\ ended.state = "geocoding-failed"
  /\ ended.queries = 1
  /\ ended.requests = 1
  /\ attempts = <<>>

\* C17: a detectLocation call that ends in 'success' gives a street_name
\* and a city that are not empty, for every address object of the geocoder
C17_SuccessHasStreetAndCity ==
  (call.function = "detectLocation" /\ returned.done
     /\ returned.value.state = "success") =>
    /\ returned.value.data.address.street_name # <<>>
    /\ returned.value.data.address.city # <<>>

\* the call is detectLocation with an address object in which all of fields
\* are absent, and it has returned
ReturnedForAddressWithout(fields) ==
  /\ call.function = "detectLocation"
  /\ call.outcome.kind = "address"
  /\ \A f \in fields : call.outcome.address[f] = <<>>
  /\ returned.done

\* the result is 'geocoding-failed' with a message that contains 'Unable to
\* identify street name'
FailedToIdentifyStreet(result) ==
  /\ result.state = "geocoding-failed"
  /\ result.data = Null
  /\ result.error \in {UnableToIdentifyStreet, getErrorMessage("geocoding-failed")}

\* C18, as claimed: for an address object without road, street, pedestrian,
\* footway, path, highway, neighbourhood, suburb and district the call ends
\* in 'geocoding-failed' with the message about the street name, whatever
\* the other fields are
C18_NoStreetFieldFails ==
  ReturnedForAddressWithout(Range(StreetFields) \cup Range(AreaFields))
    => FailedToIdentifyStreet(returned.value)

\* C18, amended: for an address object without road, street, pedestrian,
\* footway, path, highway, neighbourhood, suburb, district and building the
\* call ends in 'geocoding-failed' with the message about the street name,
\* whatever the other fields are
C18_NoStreetFieldNorBuildingFails ==
  ReturnedForAddressWithout(
      Range(StreetFields) \cup Range(AreaFields) \cup {"building"})
    => FailedToIdentifyStreet(returned.value)

\* the address object has a city and a county but nothing that names a street
C18_Witness ==
  /\ ReturnedForAddressWithout(
        Range(StreetFields) \cup Range(AreaFields) \cup {"building"})
  /\ call.outcome.address["city"] = <<"P","u","n","e">>
  /\ call.outcome.address["county"] # <<>>
  /\ returned.value.error = UnableToIdentifyStreet

\* C19: normalizeStreetName applied to what it returned returns the same
C19_NormalizeIdempotent ==
  (call.function = "normalizeStreetName" /\ returned.done) =>
    normalizeStreetName(returned.value) = returned.value

\* C20: normalizeStreetName returns "Oak Avenue" for "OAK   AVE"
C20_OakAve ==
  (call.function = "normalizeStreetName" /\ call.street = OakAve
     /\ returned.done) =>
    returned.value = <<"O","a","k"," ","A","v","e","n","u","e">>

\* the length of s without the spaces at its two ends
TrimmedLength(s) ==
  LET kept == {i \in 1..Len(s) : s[i] # " "}
  IN IF kept = {} THEN 0
     ELSE (CHOOSE i \in kept : \A j \in kept : j <= i)
            - (CHOOSE i \in kept : \A j \in kept : i <= j) + 1

C22_FailedConfirmOnlySetsError ==
  [][(locationError' \in {StreetTooShort, CityInvalid}
        /\ locationError' # locationError) =>
       /\ UNCHANGED <<locationState, locationSource, coordinates,
                      manualLocationMode, detectedStreet, detectedCity,
                      uploadedImage, attempts>>
       /\ ManualFormShown'
       /\ ~validateManualLocation(detectedStreet', detectedCity').valid
       /\ locationError' =
            validateManualLocation(detectedStreet, detectedCity).error]_vars

\* a Confirm has failed after a detection failed
C22_Witness ==
  /\ locationError = StreetTooShort
  /\ locationState \in FailureStates
  /\ ManualFormShown
  /\ coordinates = Null

\* C23: the platform is queried for the location only in a step taken with
\* an image uploaded or chosen, or by the 'Try Auto-Detect' control
C23_RequestOnlyAfterUpload ==
  [][NewDetectCall =>
       uploadedImage \/ uploadedFile \/ TryAutoDetectShown]_vars

\* C24: the LocationState 'detecting' is always followed by 'success' or by
\* a failure state, and a pending detectLocation call is always followed by
\* a state in which none is pending
C24_DetectingTerminates ==
  /\ (locationState = "detecting")
       ~> (locationState \in {"success"} \cup FailureStates)
  /\ DetectInFlight ~> ~DetectInFlight

\* a call that the caller discarded while it was pending has ended
C24_Witness ==
  /\ ended.discarded
  /\ ended.state \in {"success"} \cup FailureStates
  /\ locationState = ended.state
  /\ ~DetectInFlight

\* C25: when the location of a submission was confirmed manually with no
\* coordinates detected, createReport gets the latitude 37.7749 and the
\* longitude -122.4194
C25_ManualReportGetsDefault ==
  (submission.phase = "creating" /\ submission.undetected) =>
    /\ submission.coordinates.latitude = DefaultFallback.latitude
    /\ submission.coordinates.longitude = DefaultFallback.longitude

\* the rows of admin_actions
LoggedActions == {admin_actions[k] : k \in 1..Len(admin_actions)}

\* C26: for every updateReportStatus call that returned the updated report,
\* admin_actions has a row of that admin and report whose new_status is the
\* status written and whose previous_status is the status the report had
\* when it was written
C26_StatusChangesAudited ==
  \A a \in Admins :
    (adminCalls[a].op = "update" /\ adminCalls[a].phase = "returned"
       /\ adminCalls[a].success) =>
      [admin_id |-> a, report_id |-> adminCalls[a].reportId,
       previous_status |-> adminCalls[a].before,
       new_status |-> adminCalls[a].newStatus] \in LoggedActions

\* a deleteReport call for reportId is between its insert and its return
DeleteInFlight(reportId) ==
  \E a \in Admins :
    /\ adminCalls[a].op = "delete"
    /\ adminCalls[a].reportId = reportId
    /\ adminCalls[a].phase \in {"log", "delete"}

\* C27: for every deleteReport call that returned success, admin_actions
\* has a row with new_status 'deleted' for that report, and once the
\* deleteReport calls for a report have returned, a row with new_status
\* 'deleted' is of a report that has no row in reports
C27_DeletionsAudited ==
  /\ \A a \in Admins :
       (adminCalls[a].op = "delete" /\ adminCalls[a].phase = "returned"
          /\ adminCalls[a].success) =>
         \E action \in LoggedActions :
           /\ action.report_id = adminCalls[a].reportId
           /\ action.new_status = "deleted"
  /\ \A action \in LoggedActions :
       (action.new_status = "deleted" /\ ~DeleteInFlight(action.report_id))
         => reports[action.report_id] = NoRow

\* has a call of detectLocation returned
DetectLocationReturned ==
  /\ returned.done
  /\ call.function \in {"detectLocation", "detectLocation without coordinates"}

\* C28: in every result of detectLocation, data is not null exactly when
\* state is 'success' and exactly when error is null, and state is none of
\* 'idle', 'requesting-permission', 'detecting' and 'geocoding'
C28_DetectLocationResultConsistent ==
  DetectLocationReturned =>
    /\ ~returned.value.thrown
    /\ (returned.value.data # Null) <=> (returned.value.state = "success")
    /\ (returned.value.state = "success") <=> (returned.value.error = NoMessage)
    /\ returned.value.state \in
         LocationStates \ {"idle", "requesting-permission", "detecting", "geocoding"}

\* a call of detectLocation returned a failure of the geocoding
C28_Witness ==
  /\ DetectLocationReturned
  /\ returned.value.state = "geocoding-failed"
  /\ returned.value.data = Null
  /\ returned.value.error # NoMessage

\* C29: whenever the LocationState is 'success' the coordinates are not
\* null, and the coordinates a submission reads after its upload are not
\* null
C29_SuccessHasCoordinates ==
  /\ locationState = "success" => coordinates # Null
  /\ submission.phase \in {"uploading", "creating"} =>
       submission.coordinates # Null

\* a location confirmed by hand with no detected coordinates is submitted
C29_Witness ==
  /\ locationState = "success"
  /\ locationSource = "manual"
  /\ coordinates # Null
  /\ submission.phase = "uploading"
  /\ submission.undetected

\* were the checks of handleSubmit passed by the values it was called with
SubmissionAccepted ==
  /\ uploadedFile
  /\ locationState = "success"
  /\ detectedStreet # <<>>
  /\ detectedCity # <<>>

\* C30: createReport is called only for a submission that was made with a
\* file selected, LocationState 'success', a non-empty street and city, and
\* whose image upload succeeded; a submission made otherwise, or whose
\* upload failed, ends with an error message and without a createReport call
C30_CreateReportOnlyWhenComplete ==
  /\ [](submission.phase = "creating" =>
          /\ submission.uploadedFile
          /\ submission.locationState = "success"
          /\ submission.street_name # <<>>
          /\ submission.city # <<>>
          /\ submission.imageUrl)
  /\ [][(handleSubmit /\ ~SubmissionAccepted) =>
          /\ submitError' # NoMessage
          /\ submission' = NoSubmission
          /\ ~submitting']_vars
  /\ [][(handleSubmit /\ SubmissionAccepted) =>
          /\ submission'.phase = "uploading"
          /\ submission'.street_name = detectedStreet
          /\ submission'.city = detectedCity]_vars
  /\ [][(UploadSettled(FALSE)) =>
          /\ submitError' # NoMessage
          /\ submission' = NoSubmission
          /\ ~submitting']_vars

\* createReport has been called for a submission
C30_Witness ==
  /\ submission.phase = "creating"
  /\ submission.imageUrl
  /\ submission.uploadedFile
  /\ submitError = NoMessage

\* a submission made without a selected file ended with the error message
C30_WitnessRejected ==
  /\ submitError = "Please upload an image"
  /\ submission = NoSubmission

=============================================================================
